---- MODULE Spec2Model ----
(***************************************************************************)
(* HPM Particle Sensor Monitor (main.py): the serial session (Monitor),    *)
(* the background reader (DataCollector.run), the frame classifier         *)
(* (Monitor.handle_data_read) and the window handlers that open, close and *)
(* write to the session (MonitorWindow.start_monitor/stop_monitor/send_cmd)*)
(***************************************************************************)
EXTENDS Integers, Sequences, FiniteSets, TLC

\* ------------------------------------------------------------------ bounds
MaxSessions == 2      \* Monitor objects created by start_monitor
MaxArrivals == 1      \* chunks the device sends over the whole run
MaxSends    == 1      \* clicks on the send button over the whole run
MaxBody     == 8      \* tokens following the header in a generated frame

\* --------------------------------------------------------- hex conversions
LowerDigits == <<"0","1","2","3","4","5","6","7","8","9","a","b","c","d","e","f">>
UpperDigits == <<"0","1","2","3","4","5","6","7","8","9","A","B","C","D","E","F">>

\* value of one hexadecimal digit as int(x, 16) reads it (either letter case)
HexDigit(ch) ==
  CHOOSE v \in 0..15 : LowerDigits[v + 1] = ch \/ UpperDigits[v + 1] = ch

\* int(token, 16) for a two-character token
int16(tok) == HexDigit(tok[1]) * 16 + HexDigit(tok[2])

\* hexlify(bytes).decode('utf-8'): two lower-case digits per byte, flat
hexlify(bs) ==
  [i \in 1..(2 * Len(bs)) |->
     IF i % 2 = 1 THEN LowerDigits[(bs[(i + 1) \div 2] \div 16) + 1]
                  ELSE LowerDigits[(bs[i \div 2] % 16) + 1]]

\* a variant of upper that leaves hexlify's lower-case digits as they are
upper_skipped(chars) == chars

\* str.upper() on a string of hex digits
upper(chars) ==
  [i \in 1..Len(chars) |->
     IF \E v \in 0..15 : LowerDigits[v + 1] = chars[i]
     THEN UpperDigits[(CHOOSE v \in 0..15 : LowerDigits[v + 1] = chars[i]) + 1]
     ELSE chars[i]]

\* list(map(''.join, zip(*[iter(s)] * 2))): consecutive pairs of characters
pairs(chars) ==
  [i \in 1..(Len(chars) \div 2) |-> <<chars[2 * i - 1], chars[2 * i]>>]

\* the token list DataCollector.run emits for a drained buffer
tokens_of(bs) == pairs(upper(hexlify(bs)))

\* ------------------------------------------------------- frame classifier
\* data[i] with Python's 0-based index; Has is the bounds check Python does
Has(data, i) == i < Len(data)
At(data, i)  == int16(data[i + 1])

\* a variant of Is that compares the token's text with the upper-case hex
\* text of v
IsText(data, i, v) == data[i + 1] = tokens_of(<<v>>)[1]

\* the header tests: int(data[i], 16) == v
Is(data, i, v) == At(data, i) = v

\* a variant of PairValue with the low byte first
PairValueLittleEndian(hi, lo) == hi + lo * 256

\* a variant of PairValue that shifts the high byte by 16 bits
PairValueShifted16(hi, lo) == hi * 65536 + lo

\* a big-endian 16-bit pair: int(hi, 16) * 256 + int(lo, 16)
PairValue(hi, lo) == hi * 256 + lo

Outcome(l, e, r) == [log |-> l, emits |-> e, raised |-> r]

\* a variant of oneshot_branch that reads its pairs one token late
oneshot_branch_shifted(data) ==
  IF ~(Has(data, 4) /\ Has(data, 5)) THEN Outcome("none", <<>>, TRUE)
  ELSE LET pm25 == PairValue(At(data, 4), At(data, 5)) IN
       IF ~(Has(data, 6) /\ Has(data, 7))
       THEN Outcome("none", <<<<"pm25", pm25>>>>, TRUE)
       ELSE LET pm10 == PairValue(At(data, 6), At(data, 7)) IN
            Outcome("oneshot", <<<<"pm25", pm25>>, <<"pm10", pm10>>>>, FALSE)

\* the one-shot branch once 40 05 04 has matched (lines 218-224)
oneshot_branch(data) ==
  IF ~(Has(data, 3) /\ Has(data, 4)) THEN Outcome("none", <<>>, TRUE)
  ELSE LET pm25 == PairValue(At(data, 3), At(data, 4)) IN
       IF ~(Has(data, 5) /\ Has(data, 6))
       THEN Outcome("none", <<<<"pm25", pm25>>>>, TRUE)
       ELSE LET pm10 == PairValue(At(data, 5), At(data, 6)) IN
            Outcome("oneshot", <<<<"pm25", pm25>>, <<"pm10", pm10>>>>, FALSE)

\* a variant of auto_branch that reads its pairs at offsets 8-9 and 10-11
auto_branch_late(data) ==
  IF ~(Has(data, 8) /\ Has(data, 9)) THEN Outcome("none", <<>>, TRUE)
  ELSE LET pm25 == PairValue(At(data, 8), At(data, 9)) IN
       IF ~(Has(data, 10) /\ Has(data, 11))
       THEN Outcome("none", <<<<"pm25", pm25>>>>, TRUE)
       ELSE LET pm10 == PairValue(At(data, 10), At(data, 11)) IN
            Outcome("auto", <<<<"pm25", pm25>>, <<"pm10", pm10>>>>, FALSE)

\* the auto branch once 42 4D has matched (lines 228-234)
auto_branch(data) ==
  IF ~(Has(data, 6) /\ Has(data, 7)) THEN Outcome("none", <<>>, TRUE)
  ELSE LET pm25 == PairValue(At(data, 6), At(data, 7)) IN
       IF ~(Has(data, 8) /\ Has(data, 9))
       THEN Outcome("none", <<<<"pm25", pm25>>>>, TRUE)
       ELSE LET pm10 == PairValue(At(data, 8), At(data, 9)) IN
            Outcome("auto", <<<<"pm25", pm25>>, <<"pm10", pm10>>>>, FALSE)

\* a variant of handle_data_read whose one-shot test stops at 40 05 and
\* does not look at the third token
handle_data_read_two_token_header(data) ==
  IF ~Has(data, 0) THEN Outcome("none", <<>>, TRUE)
  ELSE IF Is(data, 0, 150) /\ ~Has(data, 1) THEN Outcome("none", <<>>, TRUE)
  ELSE IF Is(data, 0, 150) /\ Is(data, 1, 150) THEN Outcome("ERROR", <<>>, FALSE)
  ELSE IF Is(data, 0, 165) /\ ~Has(data, 1) THEN Outcome("none", <<>>, TRUE)
  ELSE IF Is(data, 0, 165) /\ Is(data, 1, 165) THEN Outcome("OK", <<>>, FALSE)
  ELSE IF Is(data, 0, 64) /\ ~Has(data, 1) THEN Outcome("none", <<>>, TRUE)
  ELSE IF Is(data, 0, 64) /\ Is(data, 1, 5) THEN oneshot_branch(data)
  ELSE IF Is(data, 0, 66) /\ ~Has(data, 1) THEN Outcome("none", <<>>, TRUE)
  ELSE IF Is(data, 0, 66) /\ Is(data, 1, 77) THEN auto_branch(data)
  ELSE Outcome("UNKNOWN", <<>>, FALSE)

\* Monitor.handle_data_read: the log line reached, the signals emitted in
\* order, and whether an IndexError escaped
handle_data_read(data) ==
  IF ~Has(data, 0) THEN Outcome("none", <<>>, TRUE)
  ELSE IF Is(data, 0, 150) /\ ~Has(data, 1) THEN Outcome("none", <<>>, TRUE)
  ELSE IF Is(data, 0, 150) /\ Is(data, 1, 150) THEN Outcome("ERROR", <<>>, FALSE)
  ELSE IF Is(data, 0, 165) /\ ~Has(data, 1) THEN Outcome("none", <<>>, TRUE)
  ELSE IF Is(data, 0, 165) /\ Is(data, 1, 165) THEN Outcome("OK", <<>>, FALSE)
  ELSE IF Is(data, 0, 64) /\ ~Has(data, 1) THEN Outcome("none", <<>>, TRUE)
  ELSE IF Is(data, 0, 64) /\ Is(data, 1, 5) /\ ~Has(data, 2)
       THEN Outcome("none", <<>>, TRUE)
  ELSE IF Is(data, 0, 64) /\ Is(data, 1, 5) /\ Is(data, 2, 4)
       THEN oneshot_branch(data)
  ELSE IF Is(data, 0, 66) /\ ~Has(data, 1) THEN Outcome("none", <<>>, TRUE)
  ELSE IF Is(data, 0, 66) /\ Is(data, 1, 77) THEN auto_branch(data)
  ELSE Outcome("UNKNOWN", <<>>, FALSE)

\* ------------------------------------------------------------ the program
Sessions == 1..MaxSessions

\* a variant of the command table with one payload typed twice
CMD_with_duplicate ==
  [ReadParticleMeasuringResult |-> <<104, 1, 4, 147>>,
   StartParticleMeasurement    |-> <<104, 1, 1, 150>>,
   StopParticleMeasurement     |-> <<104, 1, 2, 149>>,
   EnableAutoSend              |-> <<104, 1, 64, 87>>,
   StopAutoSend                |-> <<104, 1, 64, 87>>]

\* class CMD: the command table, as byte values
CMD ==
  [ReadParticleMeasuringResult |-> <<104, 1, 4, 147>>,
   StartParticleMeasurement    |-> <<104, 1, 1, 150>>,
   StopParticleMeasurement     |-> <<104, 1, 2, 149>>,
   EnableAutoSend              |-> <<104, 1, 64, 87>>,
   StopAutoSend                |-> <<104, 1, 32, 119>>]

\* what the sensor may put on the line in one burst: a lone 0x96, an error
\* reply, a one-shot reply (pm25 = 100, pm10 = 50) and an unrecognised byte
Chunks ==
  {<<150>>, <<150, 150>>, <<64, 5, 4, 0, 100, 0, 50>>, <<0>>}

VARIABLES
  monitor,       \* MonitorWindow.monitor: 0 is None, else the Monitor object
  ser,           \* Monitor.ser per Monitor: "none", "open" or "closed"
  rx,            \* bytes waiting in the handle's input buffer
  collector,     \* DataCollector per Monitor: "none" (data_collector is None),
                 \* else the position of run(): "top" (line 255), "drain"
                 \* (lines 261-274), "done" (returned or terminated)
  alive,         \* DataCollector.alive
  buff,          \* run()'s local buffer
  termReq,       \* QThread.terminate() was called on the thread
  posted,        \* queued signal deliveries waiting in the GUI thread
  nStart,        \* connections of connection_btn.clicked to start_monitor
  nStop,         \* connections of connection_btn.clicked to stop_monitor
  nSend,         \* connections of send_cmd_btn.clicked to send_cmd
  mpc,           \* GUI thread: "idle", or inside stop_monitor at "terminate"
                 \* or "wait"
  pm25_value,    \* last value notified on update_pm25_signal
  pm10_value,    \* last value notified on update_pm10_signal
  reported,      \* per Monitor: its handle_data_read has notified a reading
  errorEmits,    \* emissions of Monitor.error per Monitor
  opens,         \* calls of Monitor._establish per Monitor
  lastSlot,      \* the slot the GUI thread ran last; of that slot:
  lastWrite,     \*   its ser.write call: the command selected, the bytes and
                 \*   the handle's state
  recv,          \*   the token list handle_data_read got (its RECV line)
  lastOut,       \*   the log line it ended on and the signals it emitted
  fault,         \* the exception that escaped the last slot, or "none"
  aborted,       \* the process was aborted by an uncaught exception
  arrivals,      \* chunks sent by the device so far
  sends          \* clicks on the send button so far

vars == <<monitor, ser, rx, collector, alive, buff, termReq, posted, nStart,
          nStop, nSend, mpc, pm25_value, pm10_value, reported, errorEmits,
          opens,
          lastWrite, lastSlot, recv, lastOut, fault, aborted, arrivals, sends>>

readerVars == <<rx, collector, alive, buff, termReq>>
wiring     == <<nStart, nStop, nSend>>
labels     == <<pm25_value, pm10_value, reported>>

NoWrite == [name |-> "none", bytes |-> <<>>, handle |-> "none", sid |-> 0]
NoOut   == Outcome("none", <<>>, FALSE)

Running(s) == collector[s] \in {"top", "drain"}

\* MonitorWindow.__init__ and ConnectionToolbar.__init__
Init ==
  /\ monitor = 0
  /\ ser = [s \in Sessions |-> "none"]
  /\ rx = [s \in Sessions |-> <<>>]
  /\ collector = [s \in Sessions |-> "none"]
  /\ alive = [s \in Sessions |-> TRUE]
  /\ buff = [s \in Sessions |-> <<>>]
  /\ termReq = [s \in Sessions |-> FALSE]
  /\ posted = <<>>
  /\ nStart = 1 /\ nStop = 0 /\ nSend = 0
  /\ mpc = "idle"
  /\ pm25_value = 0 /\ pm10_value = 0
  /\ reported = [s \in Sessions |-> FALSE]
  /\ errorEmits = [s \in Sessions |-> 0]
  /\ opens = [s \in Sessions |-> 0]
  /\ lastWrite = NoWrite
  /\ lastSlot = "none"
  /\ recv = <<>>
  /\ lastOut = NoOut
  /\ fault = "none"
  /\ aborted = FALSE
  /\ arrivals = 0
  /\ sends = 0

\* a signal emitted in the reader thread is queued for the GUI thread
Event(k, s, d) == [kind |-> k, sid |-> s, data |-> d]

\* Monitor.init lines 176-177: the slot each DataCollector signal is wired to
SlotOf(kind) ==
  CASE kind = "data_read" -> "handle_data_read"
    [] kind = "finished"  -> "close_connection"

\* the GUI thread is in its event loop and the process is running
GuiIdle == mpc = "idle" /\ ~aborted

\* an exception that escapes a slot: PyQt5 from 5.5 on aborts the process,
\* earlier releases print the traceback and return to the event loop
Escapes(exc) ==
  /\ fault' = exc
  /\ aborted' \in BOOLEAN

NoEscape == fault' = "none" /\ aborted' = FALSE

\* ------------------------------------------------------ the GUI thread
Wiring(a, b, c) == [start |-> a, stop |-> b, send |-> c]

\* a variant of stop_disconnects that leaves the buttons as they are
stop_disconnects_skipped(w) == w

\* stop_monitor lines 133-139: both disconnects share one try, so a failed
\* first disconnect (TypeError, nothing connected) skips the second
stop_disconnects(w) ==
  IF w.stop = 0 THEN w
  ELSE IF w.send = 0 THEN Wiring(w.start, w.stop - 1, w.send)
  ELSE Wiring(w.start, w.stop - 1, w.send - 1)

\* stop_monitor when self.monitor.data_collector is None: the first try
\* raises AttributeError at line 128 and the handler runs to its end
stop_monitor_no_collector(w) ==
  stop_disconnects(Wiring(w.start + 1, w.stop, w.send))

\* line 117 rebinds self.monitor: the Monitor it replaces has no other
\* referent (slots are held weakly), so reference counting reclaims it there
\* and then; deliveries still queued for it are dropped with it
dropped(q, old) == SelectSeq(q, LAMBDA e : e.sid # old)

\* ... and its serial handle, if still open, is closed by the handle's
\* finalizer, without close_connection running
finalized(sr, old) ==
  IF old # 0 /\ sr[old] = "open" THEN [sr EXCEPT ![old] = "closed"] ELSE sr

\* MonitorWindow.start_monitor with Monitor.init and Monitor._establish;
\* ok: serial.Serial(...) opened the port. A QThread destroyed while it is
\* still running aborts the process.
start_monitor(ok) ==
  /\ GuiIdle /\ nStart > 0 /\ nStop = 0
  /\ monitor < MaxSessions
  /\ LET m  == monitor + 1
         w1 == Wiring(nStart - 1, nStop + 1, nSend + 1)
         w2 == IF ok THEN w1 ELSE stop_monitor_no_collector(w1)
     IN /\ monitor' = m
        /\ posted' = dropped(posted, monitor)
        /\ opens' = [opens EXCEPT ![m] = @ + 1]
        /\ ser' = [finalized(ser, monitor) EXCEPT
                     ![m] = IF ok THEN "open" ELSE "none"]
        /\ collector' = [collector EXCEPT ![m] = IF ok THEN "top" ELSE "none"]
        /\ errorEmits' = [errorEmits EXCEPT ![m] = IF ok THEN @ ELSE @ + 1]
        /\ nStart' = w2.start /\ nStop' = w2.stop /\ nSend' = w2.send
        /\ lastSlot' = IF ok THEN "start_monitor" ELSE "start_monitor_failed"
        /\ fault' = "none"
        /\ aborted' = (monitor # 0 /\ Running(monitor))
  /\ lastWrite' = NoWrite /\ recv' = <<>> /\ lastOut' = NoOut
  /\ UNCHANGED <<rx, alive, buff, termReq, mpc, labels, arrivals, sends>>

\* MonitorWindow.stop_monitor, up to alive = False (lines 124-128)
stop_monitor_begin ==
  /\ GuiIdle /\ nStop > 0 /\ nStart = 0
  /\ IF collector[monitor] = "none"
     THEN LET w == stop_monitor_no_collector(Wiring(nStart, nStop, nSend))
          IN /\ nStart' = w.start /\ nStop' = w.stop /\ nSend' = w.send
             /\ UNCHANGED <<alive, mpc>>
     ELSE /\ nStart' = nStart + 1
          /\ alive' = [alive EXCEPT ![monitor] = FALSE]
          /\ mpc' = "terminate"
          /\ UNCHANGED <<nStop, nSend>>
  /\ lastSlot' = "stop_monitor"
  /\ NoEscape
  /\ lastWrite' = NoWrite /\ recv' = <<>> /\ lastOut' = NoOut
  /\ UNCHANGED <<monitor, ser, rx, collector, buff, termReq, posted, labels,
                 errorEmits, opens, arrivals, sends>>

\* a variant of stop_monitor_terminate that also closes the serial handle
stop_monitor_closes_handle ==
  /\ mpc = "terminate" /\ ~aborted
  /\ termReq' = [termReq EXCEPT ![monitor] = TRUE]
  /\ ser' = [ser EXCEPT ![monitor] = "closed"]
  /\ mpc' = "wait"
  /\ UNCHANGED <<monitor, rx, collector, alive, buff, posted, wiring,
                 labels, errorEmits, opens, lastWrite, lastSlot, recv,
                 lastOut, fault, aborted, arrivals, sends>>

\* stop_monitor line 129: data_collector.terminate()
stop_monitor_terminate ==
  /\ mpc = "terminate" /\ ~aborted
  /\ termReq' = [termReq EXCEPT ![monitor] = TRUE]
  /\ mpc' = "wait"
  /\ UNCHANGED <<monitor, ser, rx, collector, alive, buff, posted, wiring,
                 labels, errorEmits, opens, lastWrite, lastSlot, recv,
                 lastOut, fault, aborted, arrivals, sends>>

\* a variant of wait_returns that does not wait
wait_returns_at_once(s) == TRUE

\* QThread.wait() returns once the thread has finished
wait_returns(s) == collector[s] = "done"

\* stop_monitor lines 130-139: wait() returns, then the disconnects
stop_monitor_wait ==
  /\ mpc = "wait" /\ ~aborted
  /\ wait_returns(monitor)
  /\ LET w == stop_disconnects(Wiring(nStart, nStop, nSend))
     IN nStart' = w.start /\ nStop' = w.stop /\ nSend' = w.send
  /\ mpc' = "idle"
  /\ UNCHANGED <<monitor, ser, readerVars, posted, labels, errorEmits, opens,
                 lastWrite, lastSlot, recv, lastOut, fault, aborted, arrivals, sends>>

\* Monitor.write_data line 197 on the handle as it is: the write goes through
\* on an open handle unless the device fails (wfail); a closed handle raises
\* PortNotOpenError and a missing one AttributeError
write_error(handle, wfail) ==
  CASE handle = "none"   -> "AttributeError"
    [] handle = "closed" -> "PortNotOpenError"
    [] OTHER             -> IF wfail THEN "SerialException" ELSE "none"

\* MonitorWindow.send_cmd with Monitor.write_data
send_cmd(name, wfail) ==
  /\ GuiIdle /\ nSend > 0 /\ sends < MaxSends
  /\ sends' = sends + 1
  /\ LET exc == write_error(ser[monitor], wfail)
     IN /\ lastWrite' = [name |-> name, bytes |-> CMD[name],
                         handle |-> ser[monitor], sid |-> monitor]
        /\ IF exc = "none" THEN NoEscape ELSE Escapes(exc)
  /\ lastSlot' = "send_cmd"
  /\ recv' = <<>> /\ lastOut' = NoOut
  /\ UNCHANGED <<monitor, ser, readerVars, posted, wiring, mpc, labels,
                 errorEmits, opens, arrivals>>

\* the value a channel shows after a list of emissions, in emission order
RECURSIVE shown(_, _, _)
shown(chan, emits, v) ==
  IF emits = <<>> THEN v
  ELSE shown(chan, Tail(emits),
             IF Head(emits)[1] = chan THEN Head(emits)[2] ELSE v)

\* a variant of close_connection that emits no reset
close_connection_without_reset(s) ==
  /\ ser' = [ser EXCEPT ![s] = "closed"]
  /\ lastOut' = Outcome("Connection Closed", <<>>, FALSE)
  /\ NoEscape
  /\ recv' = <<>>
  /\ UNCHANGED <<pm25_value, pm10_value, reported>>

\* Monitor.close_connection (lines 239-241)
close_connection(s) ==
  /\ ser' = [ser EXCEPT ![s] = "closed"]
  /\ pm10_value' = 0
  /\ pm25_value' = 0
  /\ lastOut' = Outcome("Connection Closed", <<<<"pm10", 0>>, <<"pm25", 0>>>>, FALSE)
  /\ NoEscape
  /\ recv' = <<>>
  /\ UNCHANGED reported

\* the slot of a data_read delivery from Monitor s
run_handle_data_read(s, data) ==
  LET out == handle_data_read(data)
  IN /\ pm25_value' = shown("pm25", out.emits, pm25_value)
     /\ reported' = [reported EXCEPT ![s] = @ \/ out.emits # <<>>]
     /\ pm10_value' = shown("pm10", out.emits, pm10_value)
     /\ recv' = data
     /\ lastOut' = out
     /\ IF out.raised THEN Escapes("IndexError") ELSE NoEscape
     /\ UNCHANGED ser

\* the GUI event loop delivers the oldest queued signal to its slot
deliver ==
  /\ GuiIdle /\ posted # <<>>
  /\ LET ev == Head(posted)
     IN /\ lastSlot' = SlotOf(ev.kind)
        /\ IF SlotOf(ev.kind) = "close_connection"
           THEN close_connection(ev.sid)
           ELSE run_handle_data_read(ev.sid, ev.data)
  /\ posted' = Tail(posted)
  /\ lastWrite' = NoWrite
  /\ UNCHANGED <<monitor, readerVars, wiring, mpc, errorEmits, opens,
                 arrivals, sends>>

\* ---------------------------------------------------- the reader thread
\* a variant of run_top whose loop test ignores alive (while True)
run_top_ignoring_alive(s) ==
  /\ ~aborted /\ collector[s] = "top"
  /\ collector' = [collector EXCEPT ![s] = "drain"]
  /\ buff' = [buff EXCEPT ![s] = <<>>]
  /\ UNCHANGED <<monitor, ser, rx, alive, termReq, posted, wiring, mpc, labels,
                 errorEmits, opens, lastWrite, lastSlot, recv, lastOut, fault,
                 aborted, arrivals, sends>>

\* DataCollector.run line 255: the loop test; a false alive ends run(), and
\* the thread's finished signal is queued for the GUI thread
run_top(s) ==
  /\ ~aborted /\ collector[s] = "top"
  /\ IF alive[s]
     THEN /\ collector' = [collector EXCEPT ![s] = "drain"]
          /\ buff' = [buff EXCEPT ![s] = <<>>]
          /\ UNCHANGED posted
     ELSE /\ collector' = [collector EXCEPT ![s] = "done"]
          /\ posted' = Append(posted, Event("finished", s, <<>>))
          /\ UNCHANGED buff
  /\ UNCHANGED <<monitor, ser, rx, alive, termReq, wiring, mpc, labels,
                 errorEmits, opens, lastWrite, lastSlot, recv, lastOut, fault,
                 aborted, arrivals, sends>>

\* a variant of run_drain that starts a fresh buffer at every byte, so that
\* only the last byte of a drain is kept
run_drain_fresh_buffer(s) ==
  /\ ~aborted /\ collector[s] = "drain"
  /\ IF ser[s] # "open"
     THEN /\ collector' = [collector EXCEPT ![s] = "done"]
          /\ posted' = Append(posted, Event("finished", s, <<>>))
          /\ UNCHANGED <<rx, buff>>
     ELSE IF Len(rx[s]) > 0
     THEN /\ buff' = [buff EXCEPT ![s] = <<Head(rx[s])>>]
          /\ rx' = [rx EXCEPT ![s] = Tail(@)]
          /\ UNCHANGED <<collector, posted>>
     ELSE /\ posted' = IF buff[s] # <<>>
                       THEN Append(posted,
                                   Event("data_read", s, tokens_of(buff[s])))
                       ELSE posted
          /\ collector' = [collector EXCEPT ![s] = "top"]
          /\ UNCHANGED <<rx, buff>>
  /\ UNCHANGED <<monitor, ser, alive, termReq, wiring, mpc, labels,
                 errorEmits, opens, lastWrite, lastSlot, recv, lastOut, fault,
                 aborted, arrivals, sends>>

\* lines 261-274: one pass of the drain loop. self.ser.in_waiting on a handle
\* that is not open raises, which the except clause of line 275 turns into the
\* end of run(); with bytes waiting one byte is read and appended (a read that
\* came back empty would append nothing); with none waiting the loop ends and
\* a non-empty buffer is emitted as one token list
run_drain(s) ==
  /\ ~aborted /\ collector[s] = "drain"
  /\ IF ser[s] # "open"
     THEN /\ collector' = [collector EXCEPT ![s] = "done"]
          /\ posted' = Append(posted, Event("finished", s, <<>>))
          /\ UNCHANGED <<rx, buff>>
     ELSE IF Len(rx[s]) > 0
     THEN /\ buff' = [buff EXCEPT ![s] = Append(@, Head(rx[s]))]
          /\ rx' = [rx EXCEPT ![s] = Tail(@)]
          /\ UNCHANGED <<collector, posted>>
     ELSE /\ posted' = IF buff[s] # <<>>
                       THEN Append(posted,
                                   Event("data_read", s, tokens_of(buff[s])))
                       ELSE posted
          /\ collector' = [collector EXCEPT ![s] = "top"]
          /\ UNCHANGED <<rx, buff>>
  /\ UNCHANGED <<monitor, ser, alive, termReq, wiring, mpc, labels,
                 errorEmits, opens, lastWrite, lastSlot, recv, lastOut, fault,
                 aborted, arrivals, sends>>

\* lines 275-277: in_waiting or read(1) raises (the device went away); run()
\* logs the exception and returns
run_io_error(s) ==
  /\ ~aborted /\ collector[s] = "drain"
  /\ collector' = [collector EXCEPT ![s] = "done"]
  /\ posted' = Append(posted, Event("finished", s, <<>>))
  /\ UNCHANGED <<monitor, ser, rx, alive, buff, termReq, wiring, mpc, labels,
                 errorEmits, opens, lastWrite, lastSlot, recv, lastOut, fault,
                 aborted, arrivals, sends>>

\* the effect of QThread.terminate(): the thread is ended wherever it is,
\* at once or later, and finished is still emitted
run_terminated(s) ==
  /\ ~aborted /\ termReq[s] /\ Running(s)
  /\ collector' = [collector EXCEPT ![s] = "done"]
  /\ posted' = Append(posted, Event("finished", s, <<>>))
  /\ UNCHANGED <<monitor, ser, rx, alive, buff, termReq, wiring, mpc, labels,
                 errorEmits, opens, lastWrite, lastSlot, recv, lastOut, fault,
                 aborted, arrivals, sends>>

\* the sensor sends a burst, which lands in the open handle's input buffer
\* (a burst no reader is left to read changes nothing and is left out)
arrive(s, c) ==
  /\ ~aborted /\ ser[s] = "open" /\ Running(s) /\ arrivals < MaxArrivals
  /\ rx' = [rx EXCEPT ![s] = @ \o c]
  /\ arrivals' = arrivals + 1
  /\ UNCHANGED <<monitor, ser, collector, alive, buff, termReq, posted, wiring,
                 mpc, labels, errorEmits, opens, lastWrite, lastSlot, recv,
                 lastOut, fault, aborted, sends>>

CmdNames == DOMAIN CMD

\* CMD(value): the Enum's lookup of a member by its payload
decode_name(bytes) == CHOOSE n \in CmdNames : CMD[n] = bytes

Next ==
  \/ \E ok \in BOOLEAN : start_monitor(ok)
  \/ stop_monitor_begin
  \/ stop_monitor_terminate
  \/ stop_monitor_wait
  \/ \E name \in CmdNames : \E wfail \in BOOLEAN : send_cmd(name, wfail)
  \/ deliver
  \/ \E s \in Sessions : run_top(s)
  \/ \E s \in Sessions : run_drain(s)
  \/ \E s \in Sessions : run_io_error(s)
  \/ \E s \in Sessions : run_terminated(s)
  \/ \E s \in Sessions : \E c \in Chunks : arrive(s, c)

Spec == Init /\ [][Next]_vars

\* ------------------------------------------- the classifier on its own
\* frame openings: every header, every partial header, either letter case
Headers ==
  {<<>>,
   <<<<"9","6">>>>, <<<<"9","6">>, <<"9","6">>>>, <<<<"9","6">>, <<"0","0">>>>,
   <<<<"A","5">>>>, <<<<"A","5">>, <<"A","5">>>>, <<<<"a","5">>, <<"A","5">>>>,
   <<<<"a","5">>, <<"a","5">>>>, <<<<"A","5">>, <<"9","6">>>>,
   <<<<"4","0">>>>, <<<<"4","0">>, <<"0","5">>>>, <<<<"4","0">>, <<"0","0">>>>,
   <<<<"4","0">>, <<"0","5">>, <<"0","4">>>>,
   <<<<"4","0">>, <<"0","5">>, <<"0","5">>>>,
   <<<<"4","2">>>>, <<<<"4","2">>, <<"4","D">>>>, <<<<"4","2">>, <<"4","d">>>>,
   <<<<"4","2">>, <<"4","0">>>>,
   <<<<"0","0">>>>}

\* tokens after the opening
BodyTokens == {<<"0","0">>, <<"f","F">>}

Bodies == UNION {[1..n -> BodyTokens] : n \in 0..MaxBody}

\* the two frames the protocol description gives in full
SampleFrames ==
  {<<<<"4","0">>, <<"0","5">>, <<"0","4">>, <<"0","0">>, <<"6","4">>,
     <<"0","0">>, <<"3","2">>>>,
   <<<<"4","2">>, <<"4","D">>, <<"0","0">>, <<"0","0">>, <<"0","0">>,
     <<"0","0">>, <<"0","0">>, <<"0","0">>, <<"0","0">>, <<"C","8">>,
     <<"0","0">>, <<"9","6">>>>}

DecodeInputs == {h \o b : h \in Headers, b \in Bodies} \cup SampleFrames

\* an open session with one data_read delivery queued
DecodeInit ==
  /\ monitor = 1
  /\ ser = [s \in Sessions |-> IF s = 1 THEN "open" ELSE "none"]
  /\ rx = [s \in Sessions |-> <<>>]
  /\ collector = [s \in Sessions |-> IF s = 1 THEN "top" ELSE "none"]
  /\ alive = [s \in Sessions |-> TRUE]
  /\ buff = [s \in Sessions |-> <<>>]
  /\ termReq = [s \in Sessions |-> FALSE]
  /\ \E d \in DecodeInputs : posted = <<Event("data_read", 1, d)>>
  /\ nStart = 0 /\ nStop = 1 /\ nSend = 1
  /\ mpc = "idle"
  /\ pm25_value \in {0, 7} /\ pm10_value \in {0, 7}
  /\ reported = [s \in Sessions |-> FALSE]
  /\ errorEmits = [s \in Sessions |-> 0]
  /\ opens = [s \in Sessions |-> IF s = 1 THEN 1 ELSE 0]
  /\ lastWrite = NoWrite
  /\ lastSlot = "start_monitor"
  /\ recv = <<>>
  /\ lastOut = NoOut
  /\ fault = "none"
  /\ aborted = FALSE
  /\ arrivals = 0
  /\ sends = 0

DecodeNext == deliver

DecodeSpec == DecodeInit /\ [][DecodeNext]_vars

\* a frame waits for delivery in a session that has shown no reading yet
\* (both labels still show the '0' of MonitorWindow.__init__, lines 92, 101)
ValueInit == DecodeInit /\ pm25_value = 0 /\ pm10_value = 0

\* the classifier inside a session that ends: the frame is handled while the
\* reader runs on, fails and has its finished signal run close_connection
ValueNext ==
  \/ deliver
  \/ \E s \in Sessions : run_top(s)
  \/ \E s \in Sessions : run_drain(s)
  \/ \E s \in Sessions : run_io_error(s)

ValueSpec == ValueInit /\ [][ValueNext]_vars

\* ------------------------------------------- one session and its reader
\* bytes the sensor has already sent when the reader starts its first pass
Waiting == {<<>>, <<165, 165>>, <<171>>}

\* the state right after a successful Connect (start_monitor lines 106-121,
\* Monitor.init lines 169-184), with some bytes waiting in the input buffer
ReaderInit ==
  /\ monitor = 1
  /\ ser = [s \in Sessions |-> IF s = 1 THEN "open" ELSE "none"]
  /\ \E w \in Waiting : rx = [s \in Sessions |-> IF s = 1 THEN w ELSE <<>>]
  /\ collector = [s \in Sessions |-> IF s = 1 THEN "top" ELSE "none"]
  /\ alive = [s \in Sessions |-> TRUE]
  /\ buff = [s \in Sessions |-> <<>>]
  /\ termReq = [s \in Sessions |-> FALSE]
  /\ posted = <<>>
  /\ nStart = 0 /\ nStop = 1 /\ nSend = 1
  /\ mpc = "idle"
  /\ pm25_value = 0 /\ pm10_value = 0
  /\ reported = [s \in Sessions |-> FALSE]
  /\ errorEmits = [s \in Sessions |-> 0]
  /\ opens = [s \in Sessions |-> IF s = 1 THEN 1 ELSE 0]
  /\ lastWrite = NoWrite
  /\ lastSlot = "start_monitor"
  /\ recv = <<>>
  /\ lastOut = NoOut
  /\ fault = "none"
  /\ aborted = FALSE
  /\ arrivals = 0
  /\ sends = 0

\* the session from Connect to Disconnect: the reader thread, the sensor, the
\* event loop and stop_monitor
ReaderNext ==
  \/ stop_monitor_begin
  \/ stop_monitor_terminate
  \/ stop_monitor_wait
  \/ deliver
  \/ \E s \in Sessions : run_top(s)
  \/ \E s \in Sessions : run_drain(s)
  \/ \E s \in Sessions : run_io_error(s)
  \/ \E s \in Sessions : run_terminated(s)
  \/ \E s \in Sessions : \E c \in Chunks : arrive(s, c)

ReaderSpec == ReaderInit /\ [][ReaderNext]_vars

\* scheduling: a started thread keeps being scheduled (run_top, run_drain), a
\* slot that has begun runs on to its end (the steps of stop_monitor), the Qt
\* event loop delivers a queued event when the GUI thread is idle, and a
\* terminated thread ends at its next sleep (lines 254 and 262). The sensor,
\* the user and device failures owe nothing.
ReaderFairness ==
  /\ WF_vars(stop_monitor_terminate)
  /\ WF_vars(stop_monitor_wait)
  /\ WF_vars(deliver)
  /\ \A s \in Sessions : WF_vars(run_top(s))
  /\ \A s \in Sessions : WF_vars(run_drain(s))
  /\ \A s \in Sessions : WF_vars(run_terminated(s))

FairReaderSpec == ReaderInit /\ [][ReaderNext]_vars /\ ReaderFairness

\* ================================================================ claims
Handled == lastSlot = "handle_data_read"

Classes == {"ERROR", "OK", "oneshot", "auto", "UNKNOWN"}

\* the frame of received tokens opens with these byte values, either case
Opens(data, bytes) ==
  /\ Len(data) >= Len(bytes)
  /\ \A i \in 1..Len(bytes) :
       HexDigit(data[i][1]) * 16 + HexDigit(data[i][2]) = bytes[i]

\* C1: handle_data_read is total: every token list, however short, ends on
\* one classification without raising, and a frame too short for the header it
\* opens with is classified UNKNOWN
C1_DecodeTotal ==
  Handled =>
    /\ ~lastOut.raised
    /\ fault = "none"
    /\ lastOut.log \in Classes
    /\ (Len(recv) < 2 => lastOut.log = "UNKNOWN")
    /\ (Opens(recv, <<64, 5, 4>>) /\ Len(recv) < 7 => lastOut.log = "UNKNOWN")
    /\ (Opens(recv, <<66, 77>>) /\ Len(recv) < 10 => lastOut.log = "UNKNOWN")

\* C2: whenever send_cmd has called write_data, the Monitor's serial handle
\* existed and was open
C2_WriteOnlyWhenOpen ==
  lastSlot = "send_cmd" => lastWrite.handle = "open"

\* C3: no reader is still running while its serial handle is closed
C3_NoUseAfterClose ==
  \A s \in Sessions : ~(Running(s) /\ ser[s] = "closed")

\* C3 witness: a handle closed after stop_monitor terminated its reader
C3_Witness ==
  \E s \in Sessions :
    ser[s] = "closed" /\ collector[s] = "done" /\ termReq[s] /\ ~alive[s]

\* C4: once close_connection has closed the current Monitor's handle, both
\* channels show 0 and stay 0 until a new Monitor is made: its reader has
\* ended and no delivery of that Monitor is left queued
C4_ZeroAfterClose ==
  (monitor # 0 /\ ser[monitor] = "closed") =>
     /\ pm25_value = 0 /\ pm10_value = 0
     /\ ~Running(monitor)
     /\ \A i \in 1..Len(posted) : posted[i].sid # monitor

\* C4 witness: a Monitor that had notified a reading is closed and reset
C4_Witness ==
  /\ monitor # 0 /\ ser[monitor] = "closed" /\ reported[monitor]
  /\ lastSlot = "close_connection"
  /\ lastOut.emits = <<<<"pm10", 0>>, <<"pm25", 0>>>>

\* C5: a frame of at least 7 tokens opening 40 05 04 is a one-shot reading
\* with pm25 = tokens[3]*256 + tokens[4] and pm10 = tokens[5]*256 + tokens[6],
\* and exactly these two values are notified
C5_Oneshot ==
  (Handled /\ Opens(recv, <<64, 5, 4>>) /\ Len(recv) >= 7) =>
     LET v25 == int16(recv[4]) * 256 + int16(recv[5])
         v10 == int16(recv[6]) * 256 + int16(recv[7])
     IN /\ lastOut.log = "oneshot" /\ ~lastOut.raised
        /\ lastOut.emits = <<<<"pm25", v25>>, <<"pm10", v10>>>>
        /\ pm25_value = v25 /\ pm10_value = v10

\* C5 witness: 40 05 04 00 64 00 32 has been decoded to 100 and 50
C5_Witness ==
  /\ Handled
  /\ recv = <<<<"4","0">>, <<"0","5">>, <<"0","4">>, <<"0","0">>, <<"6","4">>,
              <<"0","0">>, <<"3","2">>>>
  /\ pm25_value = 100 /\ pm10_value = 50

\* C6: a frame of at least 10 tokens opening 42 4D is an auto reading with
\* pm25 = tokens[6]*256 + tokens[7] and pm10 = tokens[8]*256 + tokens[9], and
\* exactly these two values are notified
C6_Auto ==
  (Handled /\ Opens(recv, <<66, 77>>) /\ Len(recv) >= 10) =>
     LET v25 == int16(recv[7]) * 256 + int16(recv[8])
         v10 == int16(recv[9]) * 256 + int16(recv[10])
     IN /\ lastOut.log = "auto" /\ ~lastOut.raised
        /\ lastOut.emits = <<<<"pm25", v25>>, <<"pm10", v10>>>>
        /\ pm25_value = v25 /\ pm10_value = v10

\* C6 witness: an auto frame whose pairs are 00 FF and FF 00
C6_Witness ==
  /\ Handled /\ Opens(recv, <<66, 77>>) /\ Len(recv) = 10
  /\ lastOut.log = "auto"
  /\ pm25_value = 255 /\ pm10_value = 65280

AutoSample ==
  <<<<"4","2">>, <<"4","D">>, <<"0","0">>, <<"0","0">>, <<"0","0">>,
    <<"0","0">>, <<"0","0">>, <<"0","0">>, <<"0","0">>, <<"C","8">>,
    <<"0","0">>, <<"9","6">>>>

\* C7 as stated: 42 4D 00 00 00 00 00 00 00 C8 00 96 decodes to an auto
\* reading with pm25 = 200 and pm10 = 150
C7_AsStated ==
  (Handled /\ recv = AutoSample) =>
     /\ lastOut.log = "auto"
     /\ pm25_value = 200 /\ pm10_value = 150

\* C7 amended: 42 4D 00 00 00 00 00 00 00 C8 00 96 decodes to an auto reading
\* with pm25 = 0 (tokens 6-7 are 00 00) and pm10 = 200 (tokens 8-9 are 00 C8)
C7_AutoSample ==
  (Handled /\ recv = AutoSample) =>
     /\ lastOut.log = "auto" /\ ~lastOut.raised
     /\ lastOut.emits = <<<<"pm25", 0>>, <<"pm10", 200>>>>
     /\ pm25_value = 0 /\ pm10_value = 200

\* C7 witness: the sample frame has been decoded
C7_Witness ==
  Handled /\ recv = AutoSample /\ lastOut.log = "auto" /\ pm10_value = 200

Tok96 == {<<"9","6">>}
TokA5 == {<<"A","5">>, <<"a","5">>}

\* C8: a frame opening 96 96 is a sensor error and one opening A5 A5 is an
\* acknowledge, whatever follows and in either letter case; neither notifies
\* a reading
C8_ErrorAndAck ==
  /\ (Handled /\ Len(recv) >= 2 /\ recv[1] \in Tok96 /\ recv[2] \in Tok96) =>
        lastOut.log = "ERROR" /\ lastOut.emits = <<>> /\ ~lastOut.raised
  /\ (Handled /\ Len(recv) >= 2 /\ recv[1] \in TokA5 /\ recv[2] \in TokA5) =>
        lastOut.log = "OK" /\ lastOut.emits = <<>> /\ ~lastOut.raised

\* C8 witness: a lower-case a5 a5 frame with more tokens after it was
\* acknowledged and the labels kept their value
C8_Witness ==
  /\ Handled /\ Len(recv) > 2
  /\ recv[1] = <<"a","5">> /\ recv[2] = <<"a","5">>
  /\ lastOut.log = "OK" /\ pm25_value = 7

\* C9: at most one DataCollector is running at any time, and no Monitor opens
\* (and so starts a reader) more than once
C9_OneReader ==
  /\ Cardinality({s \in Sessions : Running(s)}) <= 1
  /\ \A s \in Sessions : opens[s] <= 1

\* C9 witness: a second reader runs after the first has terminated
C9_Witness ==
  collector[1] = "done" /\ monitor = 2 /\ Running(2)

\* C10: a Monitor whose open failed has signalled error exactly once, has no
\* handle and no reader, was opened once only, and while it is the current
\* Monitor the send button is disconnected and the connect button is back on
\* start_monitor
C10_OpenFailure ==
  /\ \A s \in Sessions :
       (opens[s] >= 1 /\ ser[s] = "none") =>
          opens[s] = 1 /\ errorEmits[s] = 1 /\ collector[s] = "none"
  /\ (monitor # 0 /\ ser[monitor] = "none") =>
        nSend = 0 /\ nStop = 0 /\ nStart = 1 /\ mpc = "idle"
  /\ \A s \in Sessions : ser[s] # "none" => errorEmits[s] = 0

\* C10 witness: the open has just failed
C10_Witness ==
  /\ lastSlot = "start_monitor_failed"
  /\ monitor # 0 /\ ser[monitor] = "none" /\ errorEmits[monitor] = 1

\* run() has returned although alive is still true and terminate() was never
\* called: it left through its except clause (lines 275-277)
ReaderFailed(s) == collector[s] = "done" /\ alive[s] /\ ~termReq[s]

\* close_connection has just run for session s: the handle is closed and the
\* reset went out on both channels
SessionClosed(s) ==
  /\ ser[s] = "closed"
  /\ lastSlot = "close_connection"
  /\ lastOut.emits = <<<<"pm10", 0>>, <<"pm25", 0>>>>
  /\ pm25_value = 0 /\ pm10_value = 0

\* C11: an I/O exception in the reader loop is terminal: the reader never
\* runs or reads again, and afterwards the session reaches the closed state
\* (handle closed, reset 0 / 0 emitted)
C11_ReadFailureCloses ==
  /\ [][\A s \in Sessions :
         ReaderFailed(s) => collector'[s] = "done" /\ rx'[s] = rx[s]]_vars
  /\ \A s \in Sessions : ReaderFailed(s) ~> SessionClosed(s)

\* C12: no error reaches the UI as an uncaught fault: a write that fails
\* inside send_cmd (write_data) on an open handle never lets an exception
\* escape the slot
C12_WriteFailureContained ==
  (lastSlot = "send_cmd" /\ lastWrite.handle = "open") =>
    (fault = "none" /\ ~aborted)

\* alive went false while the reader was inside its drain loop
StoppedMidDrain(s) == ~alive[s] /\ collector[s] = "drain"

AckOrReading(data) ==
  \/ Opens(data, <<165, 165>>)
  \/ Opens(data, <<64, 5, 4>>) /\ Len(data) >= 7
  \/ Opens(data, <<66, 77>>) /\ Len(data) >= 10

\* this step is the event loop handing the head of the queue, a token list,
\* to handle_data_read
DeliversFrame ==
  /\ posted # <<>> /\ Head(posted).kind = "data_read"
  /\ lastSlot' = "handle_data_read"
  /\ recv' = Head(posted).data /\ posted' = Tail(posted)

\* C14: handling a SensorError or unrecognized frame, short and malformed
\* ones included, is not fatal: the handle and the reader are left as they
\* were, both displayed values are unchanged and the program goes on
\* decoding
C14_NotFatal ==
  [][(DeliversFrame /\ ~AckOrReading(Head(posted).data)) =>
       /\ ~aborted'
       /\ ser' = ser /\ collector' = collector
       /\ pm25_value' = pm25_value /\ pm10_value' = pm10_value]_vars

\* the command table as the specification prints it, in hex
CommandTable ==
  [ReadParticleMeasuringResult |->
     <<<<"6","8">>, <<"0","1">>, <<"0","4">>, <<"9","3">>>>,
   StartParticleMeasurement |->
     <<<<"6","8">>, <<"0","1">>, <<"0","1">>, <<"9","6">>>>,
   StopParticleMeasurement |->
     <<<<"6","8">>, <<"0","1">>, <<"0","2">>, <<"9","5">>>>,
   EnableAutoSend |->
     <<<<"6","8">>, <<"0","1">>, <<"4","0">>, <<"5","7">>>>,
   StopAutoSend |->
     <<<<"6","8">>, <<"0","1">>, <<"2","0">>, <<"7","7">>>>]

\* C15: send_cmd hands ser.write exactly the 4 bytes of the selected
\* command's table entry, and the table round-trips: looking the payload up
\* gives the command back, so the payloads are pairwise distinct
C15_CommandBytes ==
  lastSlot = "send_cmd" =>
    /\ lastWrite.name \in DOMAIN CommandTable
    /\ Len(lastWrite.bytes) = 4
    /\ tokens_of(lastWrite.bytes) = CommandTable[lastWrite.name]
    /\ decode_name(lastWrite.bytes) = lastWrite.name
    /\ CMD[decode_name(lastWrite.bytes)] = lastWrite.bytes

\* StopAutoSend has been written to an open handle
C15_Witness ==
  /\ lastSlot = "send_cmd" /\ fault = "none"
  /\ lastWrite.name = "StopAutoSend" /\ lastWrite.handle = "open"
  /\ lastWrite.bytes = <<104, 1, 32, 119>>

\* how many token lists of session s wait in the event queue
DataReads(q, s) ==
  Cardinality({i \in 1..Len(q) : q[i].kind = "data_read" /\ q[i].sid = s})

\* the two upper-case hex characters of one byte
UpperToken(b) == <<UpperDigits[(b \div 16) + 1], UpperDigits[(b % 16) + 1]>>

\* this step ends a pass of the reader's loop: the drain loop of session s
\* is left and control goes back to the loop test
EndsPass(s) == collector[s] = "drain" /\ collector'[s] = "top"

\* C16: a pass of the reader's loop emits exactly one data_read event if its
\* drain collected at least one byte and none if it collected nothing, no
\* other step of the reader emits one, and the emitted list holds one
\* two-character upper-case hex token per drained byte, at the byte's index
C16_OneEventPerPass ==
  [][\A s \in Sessions :
       /\ (EndsPass(s) /\ buff[s] # <<>>) =>
            /\ Len(posted') = Len(posted) + 1
            /\ SubSeq(posted', 1, Len(posted)) = posted
            /\ LET e == posted'[Len(posted')] IN
                 /\ e.kind = "data_read" /\ e.sid = s
                 /\ Len(e.data) = Len(buff[s])
                 /\ \A i \in 1..Len(buff[s]) : e.data[i] = UpperToken(buff[s][i])
       /\ (EndsPass(s) /\ buff[s] = <<>>) => posted' = posted
       /\ ~EndsPass(s) => DataReads(posted', s) <= DataReads(posted, s)]_vars

\* the reader has drained A5 A5 and queued it as one list of two tokens
C16_Witness ==
  /\ collector[1] = "top" /\ buff[1] = <<165, 165>>
  /\ posted = <<Event("data_read", 1, <<<<"A", "5">>, <<"A", "5">>>>)>>

Tok40 == {<<"4","0">>}
Tok05 == {<<"0","5">>}
Tok04 == {<<"0","4">>}
Tok42 == {<<"4","2">>}
Tok4D == {<<"4","D">>, <<"4","d">>}

\* the frame opens with one of the four headers: 96 96, A5 A5, 40 05 04 or
\* 42 4D
MatchesHeader(d) ==
  \/ Len(d) >= 2 /\ d[1] \in Tok96 /\ d[2] \in Tok96
  \/ Len(d) >= 2 /\ d[1] \in TokA5 /\ d[2] \in TokA5
  \/ Len(d) >= 3 /\ d[1] \in Tok40 /\ d[2] \in Tok05 /\ d[3] \in Tok04
  \/ Len(d) >= 2 /\ d[1] \in Tok42 /\ d[2] \in Tok4D

\* the frame holds every token the header tests look at on its way through
SufficientLength(d) ==
  /\ Len(d) >= 1
  /\ d[1] \in Tok96 \cup TokA5 \cup Tok40 \cup Tok42 => Len(d) >= 2
  /\ (Len(d) >= 2 /\ d[1] \in Tok40 /\ d[2] \in Tok05) => Len(d) >= 3

\* C17: a frame of sufficient length that matches none of the four headers,
\* a partial header included (96 x, A5 x, 40 x, 40 05 x, 42 x), is classified
\* UNKNOWN and notifies no reading
C17_UnknownFrame ==
  (Handled /\ SufficientLength(recv) /\ ~MatchesHeader(recv)) =>
    lastOut.log = "UNKNOWN" /\ lastOut.emits = <<>> /\ ~lastOut.raised

\* C17 witness: 40 05 05 with enough tokens after it for a one-shot reading
\* was classified UNKNOWN and the displayed values were left alone
C17_Witness ==
  /\ Handled /\ Len(recv) >= 7
  /\ recv[1] \in Tok40 /\ recv[2] \in Tok05 /\ recv[3] \in Tok05
  /\ lastOut.log = "UNKNOWN" /\ pm25_value = 7 /\ pm10_value = 7

\* C18: every value notified on the pm25 and pm10 channels, by a frame or by
\* the reset of close_connection, is an unsigned 16-bit integer
C18_Uint16 ==
  /\ \A i \in 1..Len(lastOut.emits) : lastOut.emits[i][2] \in 0..65535
  /\ lastSlot \in {"handle_data_read", "close_connection"} =>
       pm25_value \in 0..65535 /\ pm10_value \in 0..65535

\* C18 witness: a frame has notified the largest value on both channels
C18_Witness ==
  /\ Handled /\ lastOut.log = "auto"
  /\ lastOut.emits = <<<<"pm25", 65535>>, <<"pm10", 65535>>>>
  /\ pm25_value = 65535 /\ pm10_value = 65535

\* the tokens of session s that wait in the event queue, in queue order
RECURSIVE Queued(_, _)
Queued(q, s) ==
  IF q = <<>> THEN <<>>
  ELSE (IF Head(q).kind = "data_read" /\ Head(q).sid = s
        THEN Head(q).data ELSE <<>>) \o Queued(Tail(q), s)

\* the tokens of the bytes the reader has read and not handed over yet: the
\* queued lists, then the bytes of the pass in progress
Pipeline(s) ==
  Queued(posted, s) \o
    (IF collector[s] = "drain"
     THEN [i \in 1..Len(buff[s]) |-> UpperToken(buff[s][i])] ELSE <<>>)

\* this step cuts a pass short: run() leaves the drain loop by an exception
\* or the thread is terminated inside it
CutsPass(s) == collector[s] = "drain" /\ collector'[s] = "done"

\* C19: bytes are conserved from the handle to handle_data_read: unless an
\* I/O exception or a termination cuts a pass short, a byte read joins the
\* back of the pipeline, a delivery takes exactly the front list, and no
\* other step changes it; so nothing is lost, duplicated or reordered
\* across drains, and a pass that ends after alive went false still emits
\* what it has accumulated
C19_BytesConserved ==
  [][\A s \in Sessions :
       (~termReq[s] /\ ~CutsPass(s)) =>
         \/ /\ rx[s] # <<>> /\ rx'[s] = Tail(rx[s])
            /\ Pipeline(s)' = Append(Pipeline(s), UpperToken(Head(rx[s])))
         \/ /\ DeliversFrame /\ Head(posted).sid = s
            /\ Pipeline(s) = recv' \o Pipeline(s)'
            /\ rx'[s] = rx[s]
         \/ /\ Pipeline(s)' = Pipeline(s)
            /\ Len(rx'[s]) >= Len(rx[s])
            /\ SubSeq(rx'[s], 1, Len(rx[s])) = rx[s]]_vars

\* C19 witness: of two drains the first list (A5 A5) has been handed to
\* handle_data_read and the second (96 96) waits behind it
C19_Witness ==
  /\ Handled /\ ~termReq[1]
  /\ recv = <<<<"A", "5">>, <<"A", "5">>>>
  /\ posted = <<Event("data_read", 1, <<<<"9", "6">>, <<"9", "6">>>>)>>

====
